---------------------------- MODULE Spec2Model ----------------------------
(***************************************************************************)
(* A model of the grant budget calculator (src/budget.py).                 *)
(*                                                                         *)
(* calculate_budget is modelled statement by statement: one action for the *)
(* list initialisation, one per iteration of the year loop, one for the    *)
(* return.  main is modelled as a sequence of steps over the file system,  *)
(* the console and the log file.                                           *)
(*                                                                         *)
(* ARITHMETIC.  The program computes in binary floating point.  The model  *)
(* computes in integers, on inputs for which the two coincide: a rate is a *)
(* number of quarters (n stands for n/RateDen, so 0.25 is 1 and 1.25 is    *)
(* 5), and every amount that is multiplied by a rate is a multiple of the  *)
(* power of RateDen that the deepest chain of products of the program      *)
(* divides by (Unit).  On such inputs every intermediate value of the      *)
(* program is an integer below 2^31, which a double represents exactly, so *)
(* no operation of the program rounds and \div below is exact (GridExact). *)
(* Equalities that the program satisfies only up to rounding on other      *)
(* inputs (0.03 is not a binary fraction) are therefore settled here on    *)
(* the inputs where they are exact.                                        *)
(***************************************************************************)
EXTENDS Integers, Sequences, FiniteSets, TLC

\* ------------------------------------------------------------------ bounds

\* The largest number_years explored.
MaxYears == 3

\* ----------------------------------------------------- program constants

\* Rates are counted in quarters: GRAD_SUMMER_FRACTION = 0.25 is 1/RateDen.
RateDen == 4

\* GRAD_SUMMER_FRACTION = 0.25, in quarters.
GRAD_SUMMER_FRACTION == 1

\* SUBAWARD_INDIRECT_CAP = 25000
SUBAWARD_INDIRECT_CAP == 25000

\* ------------------------------------------------------------- arithmetic

RECURSIVE Pow(_, _)
Pow(b, e) == IF e = 0 THEN 1 ELSE b * Pow(b, e - 1)

\* The granularity of the amounts that rates multiply.  In year index y an
\* inflatable amount has been multiplied y times by (1 + inflation), then
\* by GRAD_SUMMER_FRACTION and fringe_rate, then by indirect_rate:
\* y + 3 <= MaxYears + 2 divisions by RateDen.
Unit == Pow(RateDen, MaxYears + 2)

\* min(a, b) of Python.
Min(a, b) == IF a <= b THEN a ELSE b

\* rate * x, for a rate of r quarters.
RateMul(r, x) == (r * x) \div RateDen

\* Whether rate * x is computed without rounding.
RateMulExact(r, x) == (r * x) % RateDen = 0

\* x * (1.0 + inflation): the statement  x *= (1.0 + inflation).
Inflate(x, inflation) == ((RateDen + inflation) * x) \div RateDen

\* seq[y] of Python (0-indexed) on a TLA+ sequence (1-indexed).
At(seq, y) == seq[y + 1]

\* [0.0] * n
Zeros(n) == [i \in 1..n |-> 0]


\* ------------------------------------------------------------------ state

VARIABLES
    call,        \* the arguments of the current call of calculate_budget, as the caller holds them
    loc,         \* calculate_budget's local variables (its parameters, which the loop rebinds, and its lists)
    cpc,         \* calculate_budget's position: "idle" (not called), "loop", "done" (returned)
    results,     \* the dict calculate_budget returned
    ncall,       \* how many calls the test has made
    prevMtdc,    \* the mtdc list the test's previous call returned
    subChanged,  \* whether the test's second call was given another subaward list than its first
    parExists,   \* whether budget.par exists in the current directory
    mpc,         \* main's position
    m,           \* main's local variables
    stdout,      \* the lines printed to the console
    logfile,     \* the lines of budget.log
    logOpen,     \* whether main holds budget.log open
    exitStatus,  \* the status the process exited with, "0" or "1", or "running"
    consumed     \* how many input() calls have returned

calcVars == <<call, loc, cpc, results>>
testVars == <<ncall, prevMtdc, subChanged>>
mainVars == <<parExists, mpc, m, stdout, logfile, logOpen, exitStatus, consumed>>
vars == <<call, loc, cpc, results, ncall, prevMtdc, subChanged,
          parExists, mpc, m, stdout, logfile, logOpen, exitStatus, consumed>>

\* --------------------------------------------------- calculate_budget

\* A fringe that taxes the whole graduate salary, not its summer quarter.
FringeWholeGradSalary(l) ==
    RateMul(l.fringe_rate, l.grad_salary + l.undergrad_salary + l.faculty_salary)
      + RateMul(l.fulltime_fringe, l.postdoc_salary)

\* A fringe that leaves the undergraduate salary untaxed.
FringeWithoutUndergrad(l) ==
    RateMul(l.fringe_rate,
            RateMul(GRAD_SUMMER_FRACTION, l.grad_salary) + l.faculty_salary)
      + RateMul(l.fulltime_fringe, l.postdoc_salary)

\* The fringe of the current year: the payroll tax on the summer quarter of
\* the graduate salary and on the undergraduate and faculty salaries, plus
\* the full-time fringe on the postdoc salary.
Fringe(l) ==
    RateMul(l.fringe_rate,
            RateMul(GRAD_SUMMER_FRACTION, l.grad_salary)
              + l.undergrad_salary + l.faculty_salary)
      + RateMul(l.fulltime_fringe, l.postdoc_salary)

\* A total direct cost that leaves the postdoc health cost out.
TotalDirectNoPostdocHealth(l) ==
    l.faculty_salary + l.grad_salary + l.grad_fees + l.grad_ins
      + l.postdoc_salary + l.undergrad_salary + l.travel + l.pub_costs
      + Fringe(l) + At(l.subaward, l.year)

\* tdc[year]
TotalDirect(l) ==
    l.faculty_salary + l.grad_salary + l.grad_fees + l.grad_ins
      + l.postdoc_salary + l.undergrad_salary + l.travel + l.pub_costs
      + Fringe(l) + l.postdoc_health + At(l.subaward, l.year)

\* An mtdc that subtracts the fees and insurance of year 1, as the caller
\* passed them, instead of the current year's.
ModifiedDirectYearOneFees(l, tdcY) ==
    tdcY - call.grad_fees - call.grad_ins - At(l.subaward, l.year)

\* An mtdc that leaves the subaward in the base.
ModifiedDirectKeepsSubaward(l, tdcY) == tdcY - l.grad_fees - l.grad_ins

\* mtdc[year], from tdc[year]
ModifiedDirect(l, tdcY) ==
    tdcY - l.grad_fees - l.grad_ins - At(l.subaward, l.year)

\* A subaward base that is not capped.
SubawardMtdcUncapped(l) == At(l.subaward, l.year)

\* subaward_mtdc: the part of the year's subaward that bears indirect cost
SubawardMtdc(l) == Min(At(l.subaward, l.year), SUBAWARD_INDIRECT_CAP)

\* indirect[year] after both assignments, from mtdc[year]
Indirect(l, mtdcY) ==
    RateMul(l.indirect_rate, mtdcY) + RateMul(l.indirect_rate, SubawardMtdc(l))

\* A detail dict whose subaward base is capped on the subawards of the
\* years so far taken together.
DetailCumulativeCap(l, fringe, mtdcY, indirectY) ==
    LET RECURSIVE SumTo(_)
        SumTo(y) == IF y < 0 THEN 0 ELSE At(l.subaward, y) + SumTo(y - 1)
    IN  [ year                |-> l.year + 1,
          faculty_salary      |-> l.faculty_salary,
          faculty_fringe      |-> RateMul(l.fringe_rate, l.faculty_salary),
          grad_salary         |-> l.grad_salary,
          grad_fringe         |-> RateMul(l.fringe_rate, RateMul(GRAD_SUMMER_FRACTION, l.grad_salary)),
          postdoc_salary      |-> l.postdoc_salary,
          postdoc_fringe      |-> RateMul(l.fulltime_fringe, l.postdoc_salary),
          total_postdoc       |-> RateMul(RateDen + l.fulltime_fringe, l.postdoc_salary) + l.postdoc_health,
          undergrad_salary    |-> l.undergrad_salary,
          total_fringe        |-> fringe,
          grad_tuition_health |-> l.grad_fees + l.grad_ins,
          travel              |-> l.travel,
          pub_costs           |-> l.pub_costs,
          subaward            |-> At(l.subaward, l.year),
          subaward_mtdc       |-> Min(SumTo(l.year), SUBAWARD_INDIRECT_CAP),
          mtdc                |-> mtdcY,
          indirect            |-> indirectY ]

\* The dict appended to details.
Detail(l, fringe, mtdcY, indirectY) ==
    [ year                |-> l.year + 1,
      faculty_salary      |-> l.faculty_salary,
      faculty_fringe      |-> RateMul(l.fringe_rate, l.faculty_salary),
      grad_salary         |-> l.grad_salary,
      grad_fringe         |-> RateMul(l.fringe_rate, RateMul(GRAD_SUMMER_FRACTION, l.grad_salary)),
      postdoc_salary      |-> l.postdoc_salary,
      postdoc_fringe      |-> RateMul(l.fulltime_fringe, l.postdoc_salary),
      total_postdoc       |-> RateMul(RateDen + l.fulltime_fringe, l.postdoc_salary) + l.postdoc_health,
      undergrad_salary    |-> l.undergrad_salary,
      total_fringe        |-> fringe,
      grad_tuition_health |-> l.grad_fees + l.grad_ins,
      travel              |-> l.travel,
      pub_costs           |-> l.pub_costs,
      subaward            |-> At(l.subaward, l.year),
      subaward_mtdc       |-> SubawardMtdc(l),
      mtdc                |-> mtdcY,
      indirect            |-> indirectY ]

\* "Inflate for next year": the six rebinding statements that end the loop body.
InflateForNextYear(l) ==
    [l EXCEPT !.faculty_salary   = Inflate(@, l.inflation),
              !.grad_salary      = Inflate(@, l.inflation),
              !.postdoc_salary   = Inflate(@, l.inflation),
              !.grad_fees        = Inflate(@, l.inflation),
              !.grad_ins         = Inflate(@, l.inflation),
              !.undergrad_salary = Inflate(@, l.inflation)]

\* A loop body that inflates before it computes and records the year.
YearBodyInflateFirst(l) ==
    LET i         == InflateForNextYear(l)
        fringe    == Fringe(i)
        tdcY      == TotalDirect(i)
        mtdcY     == ModifiedDirect(i, tdcY)
        indirectY == Indirect(i, mtdcY)
    IN  [i EXCEPT !.tdc[l.year + 1]      = tdcY,
                  !.mtdc[l.year + 1]     = mtdcY,
                  !.indirect[l.year + 1] = indirectY,
                  !.details = Append(@, Detail(i, fringe, mtdcY, indirectY)),
                  !.year = l.year + 1]

\* One pass through the body of the loop, for year index l.year.
YearBody(l) ==
    LET fringe    == Fringe(l)
        tdcY      == TotalDirect(l)
        mtdcY     == ModifiedDirect(l, tdcY)
        indirectY == Indirect(l, mtdcY)
        recorded  == [l EXCEPT !.tdc[l.year + 1]      = tdcY,
                               !.mtdc[l.year + 1]     = mtdcY,
                               !.indirect[l.year + 1] = indirectY,
                               !.details = Append(@, Detail(l, fringe, mtdcY, indirectY))]
    IN  [InflateForNextYear(recorded) EXCEPT !.year = l.year + 1]

\* A yearly total that adds only the indirect cost on mtdc, without the
\* charge on the subaward.
YearlyWithoutSubawardCharge(l) ==
    [y \in 1..l.number_years |-> l.tdc[y] + RateMul(l.indirect_rate, l.mtdc[y])]

\* yearly = [tdc[y] + indirect[y] for y in range(number_years)]
Yearly(l) == [y \in 1..l.number_years |-> l.tdc[y] + l.indirect[y]]

\* The returned dict.
ReturnValue(l) ==
    [tdc |-> l.tdc, mtdc |-> l.mtdc, indirect |-> l.indirect,
     yearly |-> Yearly(l), details |-> l.details]

\* The frame of a call: the parameters bound to the arguments, and the
\* three lists and details as the first four statements leave them.
EnterFrame(a) ==
    [ number_years     |-> a.number_years,
      faculty_salary   |-> a.faculty_salary,
      grad_salary      |-> a.grad_salary,
      grad_fees        |-> a.grad_fees,
      grad_ins         |-> a.grad_ins,
      undergrad_salary |-> a.undergrad_salary,
      postdoc_salary   |-> a.postdoc_salary,
      postdoc_health   |-> a.postdoc_health,
      travel           |-> a.travel,
      pub_costs        |-> a.pub_costs,
      subaward         |-> a.subaward,
      indirect_rate    |-> a.indirect_rate,
      fringe_rate      |-> a.fringe_rate,
      fulltime_fringe  |-> a.fulltime_fringe,
      inflation        |-> a.inflation,
      year             |-> 0,
      tdc              |-> Zeros(a.number_years),
      mtdc             |-> Zeros(a.number_years),
      indirect         |-> Zeros(a.number_years),
      details          |-> << >> ]

\* A loop that stops one year early.
LoopStopsEarly(l) == l.year < l.number_years - 1

\* Whether range(number_years) yields another year.
LoopContinues(l) == l.year < l.number_years

\* One iteration of  for year in range(number_years).
CalcYear ==
    /\ cpc = "loop"
    /\ LoopContinues(loc)
    /\ loc' = YearBody(loc)
    /\ UNCHANGED <<call, cpc, results>>
    /\ UNCHANGED testVars
    /\ UNCHANGED mainVars

\* The loop is exhausted: yearly is built and the dict returned.
CalcReturn ==
    /\ cpc = "loop"
    /\ ~LoopContinues(loc)
    /\ results' = ReturnValue(loc)
    /\ cpc' = "done"
    /\ UNCHANGED <<call, loc>>
    /\ UNCHANGED testVars
    /\ UNCHANGED mainVars

\* ------------------------------------------- calls of calculate_budget

\* The subaward amounts explored: negative (int() reads a sign), none,
\* below the cap, above the cap.
SubAmounts == {0 - 5000, 0, 10000, 50000}

\* The subaward lists of length n.
SubSeqs(n) == [1..n -> SubAmounts]

\* The arguments explored.  Amounts that are inflated or bear fringe are
\* multiples of Unit; the others bear only the indirect rate and are
\* multiples of RateDen.
CallArgs ==
    { [ number_years     |-> n,
        faculty_salary   |-> fs,
        grad_salary      |-> 24 * Unit,
        grad_fees        |-> 12 * Unit,
        grad_ins         |-> Unit,
        undergrad_salary |-> 5 * Unit,
        postdoc_salary   |-> ps,
        postdoc_health   |-> 2000,
        travel           |-> 2500,
        pub_costs        |-> 500,
        subaward         |-> sub,
        indirect_rate    |-> ir,
        fringe_rate      |-> fr,
        fulltime_fringe  |-> ff,
        inflation        |-> infl ] :
      n \in 1..MaxYears, fs \in {0, 3 * Unit}, ps \in {0, 48 * Unit},
      sub \in UNION {SubSeqs(k) : k \in 1..MaxYears},
      ir \in {2}, fr \in {0, 1}, ff \in {2}, infl \in {0, 1} }

\* The state in which main has not been started.
MainIdle ==
    /\ parExists = TRUE
    /\ mpc = "idle"
    /\ m = [number_years |-> 0]
    /\ stdout = << >>
    /\ logfile = << >>
    /\ logOpen = FALSE
    /\ exitStatus = "running"
    /\ consumed = 0

\* No dict has been returned.
NoResults ==
    [tdc |-> << >>, mtdc |-> << >>, indirect |-> << >>,
     yearly |-> << >>, details |-> << >>]

\* A test calls calculate_budget with a subaward list of length number_years.
CalcInit ==
    /\ call \in {a \in CallArgs : Len(a.subaward) = a.number_years}
    /\ loc = EnterFrame(call)
    /\ cpc = "loop"
    /\ results = NoResults
    /\ ncall = 1
    /\ prevMtdc = << >>
    /\ subChanged = FALSE
    /\ MainIdle

\* The test calls again with the same arguments but for the subaward list
\* (test_subaward_excluded_from_mtdc); of the first call's dict it keeps
\* the mtdc list, which it compares.
CallAgain ==
    /\ mpc = "idle"
    /\ cpc = "done"
    /\ ncall = 1
    /\ \E sub \in SubSeqs(call.number_years) :
         /\ call' = [call EXCEPT !.subaward = sub]
         /\ subChanged' = (sub # call.subaward)
    /\ loc' = EnterFrame(call')
    /\ prevMtdc' = results.mtdc
    /\ results' = NoResults
    /\ ncall' = 2
    /\ cpc' = "loop"
    /\ UNCHANGED mainVars

CalcNext == CalcYear \/ CalcReturn \/ CallAgain

CalcSpec == CalcInit /\ [][CalcNext]_vars

\* Every product of the current iteration is exact: the integer arithmetic
\* of the model is the floating-point arithmetic of the program.
GridExact ==
    (cpc = "loop" /\ LoopContinues(loc)) =>
        /\ RateMulExact(GRAD_SUMMER_FRACTION, loc.grad_salary)
        /\ RateMulExact(loc.fringe_rate,
                        RateMul(GRAD_SUMMER_FRACTION, loc.grad_salary)
                          + loc.undergrad_salary + loc.faculty_salary)
        /\ RateMulExact(loc.fringe_rate, loc.faculty_salary)
        /\ RateMulExact(loc.fringe_rate, RateMul(GRAD_SUMMER_FRACTION, loc.grad_salary))
        /\ RateMulExact(loc.fulltime_fringe, loc.postdoc_salary)
        /\ RateMulExact(loc.indirect_rate, ModifiedDirect(loc, TotalDirect(loc)))
        /\ RateMulExact(loc.indirect_rate, SubawardMtdc(loc))
        /\ \A x \in {loc.faculty_salary, loc.grad_salary, loc.postdoc_salary,
                     loc.grad_fees, loc.grad_ins, loc.undergrad_salary} :
               RateMulExact(RateDen + loc.inflation, x)

\* ------------------------------------------------------- main: text

PAR_FILE == "budget.par"
LOG_FILE == "budget.log"

\* A line of output: its fixed text and the values formatted into it.
Line(text, args) == [text |-> text, args |-> args]

\* print() without arguments, log() without arguments: an empty line.
BlankLine == Line("", << >>)

\* n below 1000 as three digits.
Pad3(n) ==
    IF n < 10 THEN "00" \o ToString(n)
    ELSE IF n < 100 THEN "0" \o ToString(n)
    ELSE ToString(n)

\* The digits of n >= 0 in groups of three separated by commas.
RECURSIVE Grouped(_)
Grouped(n) ==
    IF n < 1000 THEN ToString(n)
    ELSE Grouped(n \div 1000) \o "," \o Pad3(n % 1000)

\* dollar(amount): f"${amount:,.2f}", for a whole amount.
Dollar(amount) ==
    IF amount < 0 THEN "$-" \o Grouped(0 - amount) \o ".00"
    ELSE "$" \o Grouped(amount) \o ".00"

\* What input() returns, or a value of budget.par: a string, by how int()
\* and float() read it.  "int": an integer literal; "dec": a literal with a
\* decimal point, which float() reads and int() rejects; "word": neither;
\* "empty": the empty string.
IntTok(n) == [kind |-> "int", val |-> n]
DecTok(v) == [kind |-> "dec", val |-> v]
WordTok == [kind |-> "word", val |-> 0]
EmptyTok == [kind |-> "empty", val |-> 0]

\* entry or default
OrDefault(entry, d) == IF entry.kind = "empty" THEN d ELSE entry

\* Whether int(tok), float(tok) return (they raise ValueError otherwise).
IntOk(tok) == tok.kind = "int"
FloatOk(tok) == tok.kind \in {"int", "dec"}
ConvOk(conv, tok) == IF conv = "int" THEN IntOk(tok) ELSE FloatOk(tok)

\* ---------------------------------------------------- main: budget.par

\* The lines of the budget.par explored: comments, a blank line, a line
\* without "=", and key = value lines; undergrad_salary and pub_costs are
\* not set.  The faculty base salary is a multiple of 9 * Unit, so the
\* monthly salary is a multiple of Unit.
ParFile ==
    << [kind |-> "comment", key |-> "", value |-> EmptyTok],
       [kind |-> "pair", key |-> "faculty_base_salary", value |-> IntTok(72 * Unit)],
       [kind |-> "pair", key |-> "faculty_months", value |-> DecTok(1)],
       [kind |-> "blank", key |-> "", value |-> EmptyTok],
       [kind |-> "pair", key |-> "grad_stipend", value |-> IntTok(24 * Unit)],
       [kind |-> "pair", key |-> "grad_fees", value |-> DecTok(12 * Unit)],
       [kind |-> "pair", key |-> "grad_insurance", value |-> DecTok(Unit)],
       [kind |-> "nosep", key |-> "", value |-> EmptyTok],
       [kind |-> "pair", key |-> "postdoc_salary", value |-> IntTok(0)],
       [kind |-> "pair", key |-> "postdoc_health", value |-> IntTok(0)],
       [kind |-> "pair", key |-> "travel", value |-> IntTok(2500)],
       [kind |-> "pair", key |-> "indirect_rate", value |-> DecTok(2)],
       [kind |-> "pair", key |-> "fringe_rate", value |-> DecTok(0)],
       [kind |-> "pair", key |-> "fulltime_fringe", value |-> DecTok(2)],
       [kind |-> "pair", key |-> "inflation", value |-> DecTok(3)],
       [kind |-> "pair", key |-> "inflation", value |-> DecTok(1)] >>

\* load_parameters(path): the key = value lines as a dict, a later line of
\* a key replacing an earlier one; comments, blank lines and lines without
\* "=" are skipped.
RECURSIVE LoadParameters(_)
LoadParameters(lines) ==
    IF lines = << >> THEN << >>
    ELSE LET last == lines[Len(lines)]
             rest == LoadParameters(SubSeq(lines, 1, Len(lines) - 1))
         IN  IF last.kind = "pair" THEN (last.key :> last.value) @@ rest ELSE rest

\* default(key): params.get(key, "0")
Default(params, key) ==
    IF key \in DOMAIN params THEN params[key] ELSE IntTok(0)

\* ------------------------------------------------------- main: inputs

\* The most rejected subaward entries explored in one run.
MaxRetries == 2

\* Entries explored at "Enter number of years [3]".
YearEntries == {EmptyTok, WordTok} \cup {IntTok(n) : n \in 0..MaxYears}

\* Entries explored at "Enter number of supported faculty [1]".
PiEntries == {EmptyTok, IntTok(0 - 1), IntTok(0), IntTok(2)}

\* Entries explored at the two prompts of a faculty investigator.
BaseEntries == {EmptyTok, IntTok(36 * Unit)}
MonthEntries == {EmptyTok, WordTok}

\* The prompts of lines 173-186, in order: the variable assigned, the key
\* of its default, the conversion applied.
ScalarPrompts ==
    << [var |-> "grad_salary",      key |-> "grad_stipend",     conv |-> "int"],
       [var |-> "grad_fees",        key |-> "grad_fees",        conv |-> "float"],
       [var |-> "grad_ins",         key |-> "grad_insurance",   conv |-> "float"],
       [var |-> "undergrad_salary", key |-> "undergrad_salary", conv |-> "int"],
       [var |-> "postdoc_salary",   key |-> "postdoc_salary",   conv |-> "int"],
       [var |-> "postdoc_health",   key |-> "postdoc_health",   conv |-> "int"],
       [var |-> "travel",           key |-> "travel",           conv |-> "int"],
       [var |-> "pub_costs",        key |-> "pub_costs",        conv |-> "int"] >>

\* The prompts of lines 217-220.
RatePrompts ==
    << [var |-> "indirect_rate",   key |-> "indirect_rate",   conv |-> "float"],
       [var |-> "fringe_rate",     key |-> "fringe_rate",     conv |-> "float"],
       [var |-> "fulltime_fringe", key |-> "fulltime_fringe", conv |-> "float"],
       [var |-> "inflation",       key |-> "inflation",       conv |-> "float"] >>

\* Entries explored at a prompt of ScalarPrompts: the default everywhere, a
\* decimal where int() is applied, a postdoc.
ScalarEntries(var) ==
    CASE var = "grad_salary"    -> {EmptyTok, DecTok(24 * Unit)}
      [] var = "postdoc_salary" -> {EmptyTok, IntTok(48 * Unit)}
      [] OTHER                  -> {EmptyTok}

\* Entries explored at a prompt of RatePrompts, in quarters: the default
\* everywhere, 1.25 and -0.25 (outside [0, 1]), 1.0 (its upper end; the
\* default fringe rate is its lower end).
RateEntries(var) ==
    CASE var = "indirect_rate" -> {EmptyTok, DecTok(5)}
      [] var = "fringe_rate"   -> {EmptyTok, DecTok(4)}
      [] var = "inflation"     -> {EmptyTok, DecTok(0 - 1)}
      [] OTHER                 -> {EmptyTok}

\* Entries explored at the subaward prompt for n years, each the tokens of
\* user_input.split(): nothing, n integers, n + 1 integers, a word
\* followed by integers.
SubawardEntries(n) ==
    { << >>,
      [y \in 1..n |-> CASE y = 1 -> IntTok(50000) [] y = 2 -> IntTok(0) [] OTHER -> IntTok(10000)],
      [y \in 1..(n + 1) |-> IntTok(1000)],
      [y \in 1..n |-> IF y = 1 THEN WordTok ELSE IntTok(1000)] }

\* main's local variables before any is assigned.
MainLocals ==
    [ params           |-> << >>,
      number_years     |-> 0,
      number_pis       |-> 0,
      pi               |-> 0,
      faculty_salary   |-> 0,
      grad_salary      |-> 0,
      grad_fees        |-> 0,
      grad_ins         |-> 0,
      undergrad_salary |-> 0,
      postdoc_salary   |-> 0,
      postdoc_health   |-> 0,
      travel           |-> 0,
      pub_costs        |-> 0,
      user_input       |-> << >>,
      subaward         |-> << >>,
      indirect_rate    |-> 0,
      fringe_rate      |-> 0,
      fulltime_fringe  |-> 0,
      inflation        |-> 0,
      k                |-> 1,
      rejected         |-> 0 ]

\* What budget.log held before the run.
PriorLog == << Line("(an earlier run)", << >>) >>

\* ------------------------------------------------------- main: steps

\* The prompt input() writes.
Prompt(name) == Line("? ", <<name>>)

\* An uncaught ValueError: the traceback goes to stderr and the process
\* exits with status 1.
Crash(out, n) ==
    /\ stdout' = stdout \o out
    /\ consumed' = consumed + n
    /\ mpc' = "crashed"
    /\ exitStatus' = "1"
    /\ logOpen' = FALSE
    /\ UNCHANGED <<parExists, m, logfile>>

\* print(...) of the lines out, then sys.exit(1), after n inputs.
ExitWithError(out, n) ==
    /\ stdout' = stdout \o out
    /\ consumed' = consumed + n
    /\ mpc' = "exited"
    /\ exitStatus' = "1"
    /\ logOpen' = FALSE
    /\ UNCHANGED <<parExists, m, logfile>>

\* The banner, through log().
Banner ==
    << Line("Basic Grant Budget Calculator", << >>),
       Line("Robert Fisher, 11/2/2016", << >>),
       Line("Refactored 2/16/2026 - defaults read from budget.par", << >>),
       Line("Run: ", <<"now">>),
       BlankLine >>

\* main up to the first prompt, when budget.par exists: the parameters are
\* loaded, budget.log is opened for appending and the banner logged.
LoadAndOpen ==
    /\ m' = [m EXCEPT !.params = LoadParameters(ParFile)]
    /\ logOpen' = TRUE
    /\ stdout' = stdout \o Banner
    /\ logfile' = logfile \o Banner
    /\ mpc' = "years"
    /\ UNCHANGED <<parExists, exitStatus, consumed>>

\* A main that reports the missing file without leaving.
MainStartWithoutExit ==
    /\ mpc = "start"
    /\ IF ~parExists
         THEN /\ stdout' = stdout \o
                    << Line("Error: parameter file not found.", <<PAR_FILE>>),
                       Line("Place budget.par in the current directory and re-run.", << >>) >>
              /\ m' = m
              /\ logOpen' = TRUE
              /\ logfile' = logfile \o Banner
              /\ mpc' = "years"
              /\ UNCHANGED <<parExists, exitStatus, consumed>>
         ELSE LoadAndOpen
    /\ UNCHANGED calcVars
    /\ UNCHANGED testVars

\* Lines 116-134: without budget.par, the diagnostic and exit status 1;
\* with it, the parameters, the log file and the banner.
MainStart ==
    /\ mpc = "start"
    /\ IF ~parExists
         THEN ExitWithError(
                  << Line("Error: parameter file not found.", <<PAR_FILE>>),
                     Line("Place budget.par in the current directory and re-run.", << >>) >>,
                  0)
         ELSE LoadAndOpen
    /\ UNCHANGED calcVars
    /\ UNCHANGED testVars

\* Lines 142-145: the number of years.
MainReadYears ==
    /\ mpc = "years"
    /\ \E entry \in YearEntries :
         LET tok == OrDefault(entry, IntTok(3))
             asked == << Prompt("number_years") >>
         IN  IF ~IntOk(tok) THEN Crash(asked, 1)
             ELSE IF tok.val < 1
               THEN ExitWithError(
                        asked \o << Line("Error: number of years must be at least 1.", << >>) >>, 1)
               ELSE /\ m' = [m EXCEPT !.number_years = tok.val]
                    /\ stdout' = stdout \o asked
                    /\ consumed' = consumed + 1
                    /\ mpc' = "pis"
                    /\ UNCHANGED <<parExists, logfile, logOpen, exitStatus>>
    /\ UNCHANGED calcVars
    /\ UNCHANGED testVars

\* Where main goes when pi investigators of n have been entered.
AfterInvestigator(pi, n) == IF pi < n THEN "faculty" ELSE "scalars"

\* Lines 147-157: the number of investigators; faculty_salary = 0.0.
MainReadPis ==
    /\ mpc = "pis"
    /\ \E entry \in PiEntries :
         LET tok == OrDefault(entry, IntTok(1))
             asked == << Prompt("number_pis") >>
         IN  IF ~IntOk(tok) THEN Crash(asked, 1)
             ELSE IF tok.val < 0
               THEN ExitWithError(
                        asked \o << Line("Error: number of faculty cannot be negative.", << >>) >>, 1)
               ELSE /\ m' = [m EXCEPT !.number_pis = tok.val, !.pi = 0, !.faculty_salary = 0]
                    /\ stdout' = stdout \o asked
                    /\ consumed' = consumed + 1
                    /\ mpc' = AfterInvestigator(0, tok.val)
                    /\ UNCHANGED <<parExists, logfile, logOpen, exitStatus>>
    /\ UNCHANGED calcVars
    /\ UNCHANGED testVars

\* months_salary * (base_salary / 9.0), months in quarters.
SummerSalary(base, months) == RateMul(months, base \div 9)

\* Lines 159-164: one investigator's base salary and summer months.
MainReadFaculty ==
    /\ mpc = "faculty"
    /\ m.pi < m.number_pis
    /\ \E eb \in BaseEntries, em \in MonthEntries :
         LET base == OrDefault(eb, Default(m.params, "faculty_base_salary"))
             months == OrDefault(em, Default(m.params, "faculty_months"))
             intro == Line("Entering 9-month salary for faculty investigator", <<m.pi + 1>>)
         IN  IF ~IntOk(base) THEN Crash(<<intro, Prompt("base_salary")>>, 1)
             ELSE IF ~FloatOk(months)
               THEN Crash(<<intro, Prompt("base_salary"), Prompt("months_salary")>>, 2)
               ELSE /\ m' = [m EXCEPT !.faculty_salary = @ + SummerSalary(base.val, months.val),
                                      !.pi = @ + 1]
                    /\ stdout' = stdout \o <<intro, Prompt("base_salary"), Prompt("months_salary")>>
                    /\ consumed' = consumed + 2
                    /\ mpc' = AfterInvestigator(m.pi + 1, m.number_pis)
                    /\ UNCHANGED <<parExists, logfile, logOpen, exitStatus>>
    /\ UNCHANGED calcVars
    /\ UNCHANGED testVars

\* Lines 166-186: one of the eight prompts for a yearly amount.
MainReadScalar ==
    /\ mpc = "scalars"
    /\ LET p == ScalarPrompts[m.k]
       IN  \E entry \in ScalarEntries(p.var) :
             LET tok == OrDefault(entry, Default(m.params, p.key))
             IN  IF ~ConvOk(p.conv, tok) THEN Crash(<<Prompt(p.var)>>, 1)
                 ELSE /\ m' = [m EXCEPT ![p.var] = tok.val,
                                        !.k = IF m.k = Len(ScalarPrompts) THEN 1 ELSE m.k + 1]
                      /\ stdout' = stdout \o <<Prompt(p.var)>>
                      /\ consumed' = consumed + 1
                      /\ mpc' = IF m.k = Len(ScalarPrompts) THEN "subaward" ELSE "scalars"
                      /\ UNCHANGED <<parExists, logfile, logOpen, exitStatus>>
    /\ UNCHANGED calcVars
    /\ UNCHANGED testVars

\* sum(seq)
RECURSIVE Sum(_)
Sum(seq) == IF seq = << >> THEN 0 ELSE seq[1] + Sum(Tail(seq))

\* The line printed before each subaward entry.
SubawardPrompt(n) ==
    Line("Enter subaward as n integers, e.g., 1000 2000 ..., or press Enter for all zero:", <<n>>)

\* A subaward loop that takes any number of integers.
MainReadSubawardAnyCount ==
    /\ mpc = "subaward"
    /\ \E entry \in SubawardEntries(m.number_years) :
         LET asked == << SubawardPrompt(m.number_years) >>
             parsed == [y \in 1..Len(entry) |-> entry[y].val]
             accept(sub) ==
                 LET said == << Line("Subaward values: ", <<sub>>),
                                Line("Total Subaward: ", <<Dollar(Sum(sub))>>) >>
                 IN  /\ m' = [m EXCEPT !.user_input = entry, !.subaward = sub]
                     /\ stdout' = stdout \o asked \o said
                     /\ logfile' = logfile \o said
                     /\ mpc' = "rates"
             reject(why) ==
                 /\ m.rejected < MaxRetries
                 /\ m' = [m EXCEPT !.user_input = entry, !.rejected = @ + 1]
                 /\ stdout' = stdout \o asked \o << Line("Error: . Try again.", <<why>>) >>
                 /\ logfile' = logfile
                 /\ mpc' = "subaward"
         IN  IF entry = << >> THEN accept(Zeros(m.number_years))
             ELSE IF \E y \in 1..Len(entry) : ~IntOk(entry[y])
               THEN reject("invalid literal for int()")
               ELSE accept(parsed)
    /\ consumed' = consumed + 1
    /\ UNCHANGED <<parExists, logOpen, exitStatus>>
    /\ UNCHANGED calcVars
    /\ UNCHANGED testVars

\* Lines 190-208: one turn of the subaward loop.  An empty entry gives
\* number_years zeros; otherwise every token goes through int() and the
\* count is compared with number_years; a ValueError from either is
\* printed and the loop prompts again.  After the loop the subaward is
\* logged.
MainReadSubaward ==
    /\ mpc = "subaward"
    /\ \E entry \in SubawardEntries(m.number_years) :
         LET asked == << SubawardPrompt(m.number_years) >>
             parsed == [y \in 1..Len(entry) |-> entry[y].val]
             accept(sub) ==
                 LET said == << Line("Subaward values: ", <<sub>>),
                                Line("Total Subaward: ", <<Dollar(Sum(sub))>>) >>
                 IN  /\ m' = [m EXCEPT !.user_input = entry, !.subaward = sub]
                     /\ stdout' = stdout \o asked \o said
                     /\ logfile' = logfile \o said
                     /\ mpc' = "rates"
             reject(why) ==
                 /\ m.rejected < MaxRetries
                 /\ m' = [m EXCEPT !.user_input = entry, !.rejected = @ + 1]
                 /\ stdout' = stdout \o asked \o << Line("Error: . Try again.", <<why>>) >>
                 /\ logfile' = logfile
                 /\ mpc' = "subaward"
         IN  IF entry = << >> THEN accept(Zeros(m.number_years))
             ELSE IF \E y \in 1..Len(entry) : ~IntOk(entry[y])
               THEN reject("invalid literal for int()")
               ELSE IF Len(entry) # m.number_years
                 THEN reject("Please enter exactly number_years integers.")
                 ELSE accept(parsed)
    /\ consumed' = consumed + 1
    /\ UNCHANGED <<parExists, logOpen, exitStatus>>
    /\ UNCHANGED calcVars
    /\ UNCHANGED testVars

\* Lines 212-220: one of the four prompts for a rate.
MainReadRate ==
    /\ mpc = "rates"
    /\ LET p == RatePrompts[m.k]
       IN  \E entry \in RateEntries(p.var) :
             LET tok == OrDefault(entry, Default(m.params, p.key))
             IN  IF ~ConvOk(p.conv, tok) THEN Crash(<<Prompt(p.var)>>, 1)
                 ELSE /\ m' = [m EXCEPT ![p.var] = tok.val,
                                        !.k = IF m.k = Len(RatePrompts) THEN 1 ELSE m.k + 1]
                      /\ stdout' = stdout \o <<Prompt(p.var)>>
                      /\ consumed' = consumed + 1
                      /\ mpc' = IF m.k = Len(RatePrompts) THEN "check" ELSE "rates"
                      /\ UNCHANGED <<parExists, logfile, logOpen, exitStatus>>
    /\ UNCHANGED calcVars
    /\ UNCHANGED testVars

\* A range check that also flags the ends of [0, 1].
OutOfRangeExclusive(val) == ~(0 < val /\ val < RateDen)

\* not 0.0 <= val <= 1.0, for a rate in quarters.
OutOfRange(val) == ~(0 <= val /\ val <= RateDen)

\* The warning printed for a rate outside [0, 1]: the rate and val/100.
Warning(name, val) ==
    Line("Warning: is outside [0, 1]. Did you mean ?",
         <<name, val, [num |-> val, den |-> 100 * RateDen]>>)

\* Lines 222-225: the warnings, in the order of the four rates.
Warnings(l) ==
    LET names == <<"indirect_rate", "fringe_rate", "fulltime_fringe", "inflation">>
        bad(name) == OutOfRange(l[name])
        flagged == SelectSeq(names, bad)
    IN  [i \in 1..Len(flagged) |-> Warning(flagged[i], l[flagged[i]])]

\* Lines 230-248: the echo of the inputs, through log().
InputParameters(l) ==
    << Line("Input Parameters", << >>),
       Line("---------------------------------", << >>),
       Line("  Number of years              = ", <<l.number_years>>),
       Line("  Number of faculty            = ", <<l.number_pis>>),
       Line("  Faculty salary (year 1)      = ", <<Dollar(l.faculty_salary)>>),
       Line("  Graduate stipend             = ", <<Dollar(l.grad_salary)>>),
       Line("  Graduate tuition + fees      = ", <<Dollar(l.grad_fees)>>),
       Line("  Graduate health insurance    = ", <<Dollar(l.grad_ins)>>),
       Line("  Undergraduate salary         = ", <<Dollar(l.undergrad_salary)>>),
       Line("  Postdoc salary               = ", <<Dollar(l.postdoc_salary)>>),
       Line("  Postdoc health               = ", <<Dollar(l.postdoc_health)>>),
       Line("  Travel                       = ", <<Dollar(l.travel)>>),
       Line("  Publication costs            = ", <<Dollar(l.pub_costs)>>),
       Line("  Subawards                    = ", <<l.subaward>>),
       Line("  Indirect rate                = ", <<l.indirect_rate>>),
       Line("  Fringe (payroll tax) rate    = ", <<l.fringe_rate>>),
       Line("  Full-time fringe rate        = ", <<l.fulltime_fringe>>),
       Line("  Inflation rate               = ", <<l.inflation>>),
       BlankLine >>

\* "=" * 60, written to the log file only.
Rule == Line("============================================================", << >>)

\* Lines 222-248: the range check of the rates and the echo of the inputs.
MainCheckAndEcho ==
    /\ mpc = "check"
    /\ stdout' = stdout \o Warnings(m) \o InputParameters(m)
    /\ logfile' = logfile \o <<Rule>> \o InputParameters(m)
    /\ mpc' = "call"
    /\ UNCHANGED <<parExists, m, logOpen, exitStatus, consumed>>
    /\ UNCHANGED calcVars
    /\ UNCHANGED testVars

\* The arguments main passes to calculate_budget.
Arguments(l) ==
    [ number_years     |-> l.number_years,
      faculty_salary   |-> l.faculty_salary,
      grad_salary      |-> l.grad_salary,
      grad_fees        |-> l.grad_fees,
      grad_ins         |-> l.grad_ins,
      undergrad_salary |-> l.undergrad_salary,
      postdoc_salary   |-> l.postdoc_salary,
      postdoc_health   |-> l.postdoc_health,
      travel           |-> l.travel,
      pub_costs        |-> l.pub_costs,
      subaward         |-> l.subaward,
      indirect_rate    |-> l.indirect_rate,
      fringe_rate      |-> l.fringe_rate,
      fulltime_fringe  |-> l.fulltime_fringe,
      inflation        |-> l.inflation ]

\* Lines 252-255: the call of calculate_budget.
MainCall ==
    /\ mpc = "call"
    /\ call' = Arguments(m)
    /\ loc' = EnterFrame(call')
    /\ cpc' = "loop"
    /\ mpc' = "calc"
    /\ UNCHANGED results
    /\ UNCHANGED <<parExists, m, stdout, logfile, logOpen, exitStatus, consumed>>
    /\ UNCHANGED testVars

\* The rows of the table that show one key of the details, in order.
LineItems ==
    << [label |-> "Faculty Salary",                key |-> "faculty_salary"],
       [label |-> "Faculty Fringe",                key |-> "faculty_fringe"],
       [label |-> "Graduate Salary",               key |-> "grad_salary"],
       [label |-> "Graduate Fringe",               key |-> "grad_fringe"],
       [label |-> "Postdoc Salary",                key |-> "postdoc_salary"],
       [label |-> "Postdoc Fringe",                key |-> "postdoc_fringe"],
       [label |-> "Total Postdoc",                 key |-> "total_postdoc"],
       [label |-> "Undergraduate Salary",          key |-> "undergrad_salary"],
       [label |-> "Total Fringe",                  key |-> "total_fringe"],
       [label |-> "Graduate Tuition + Health Ins", key |-> "grad_tuition_health"],
       [label |-> "Travel",                        key |-> "travel"],
       [label |-> "Publication Costs",             key |-> "pub_costs"],
       [label |-> "Subaward",                      key |-> "subaward"] >>

\* table_row(label, values, total): the label, a column per value and the
\* total, each amount through dollar().
TableRow(label, values, total) ==
    Line(label, <<[i \in 1..Len(values) |-> Dollar(values[i])], Dollar(total)>>)

\* The header of the table for n years, and the rule under it, as long as
\* the header: label_w + col_w * (n + 1) characters.
Header(n) == Line("Year", <<[y \in 1..n |-> y], "Total">>)
Sep(n) == Line("-", <<32 + 16 * (n + 1)>>)

\* [d[key] for d in details]
Column(details, key) == [i \in 1..Len(details) |-> details[i][key]]

\* Lines 293-312: the table, through log().
Table(n, r) ==
    <<BlankLine, Header(n), Sep(n)>>
      \o [i \in 1..Len(LineItems) |->
            LET vals == Column(r.details, LineItems[i].key)
            IN  TableRow(LineItems[i].label, vals, Sum(vals))]
      \o << Sep(n),
            TableRow("Modified Total Direct Costs",
                     Column(r.details, "mtdc"), Sum(Column(r.details, "mtdc"))),
            TableRow("Indirect", r.indirect, Sum(r.indirect)),
            Sep(n),
            TableRow("Total Direct", r.tdc, Sum(r.tdc)),
            TableRow("Total Budget", r.yearly, Sum(r.yearly)) >>

\* Lines 315-319: an empty line and a note for each year whose subaward
\* bears indirect cost, if there is one.
SubawardNotes(indirect_rate, details) ==
    LET charged(d) == d.subaward_mtdc > 0
        noted == SelectSeq(details, charged)
    IN  IF noted = << >> THEN << >>
        ELSE <<BlankLine>>
               \o [i \in 1..Len(noted) |->
                     Line("  Note: Year subaward indirect (on first $25k) = ",
                          <<noted[i].year,
                            Dollar(RateMul(indirect_rate, noted[i].subaward_mtdc))>>)]

\* A report whose subaward notes are printed but not written to the log file.
MainReportNotesPrinted ==
    /\ mpc = "calc"
    /\ cpc = "done"
    /\ LET said == Table(m.number_years, results)
           notes == SubawardNotes(m.indirect_rate, results.details)
       IN  /\ stdout' = stdout \o said \o notes \o << Line("Results saved to ", <<LOG_FILE>>) >>
           /\ logfile' = logfile \o said \o <<BlankLine>>
    /\ logOpen' = FALSE
    /\ mpc' = "finished"
    /\ exitStatus' = "0"
    /\ UNCHANGED <<parExists, m, consumed>>
    /\ UNCHANGED calcVars
    /\ UNCHANGED testVars

\* Lines 257-323: the report, the closing of the log file, and the end of
\* main, with which the process exits with status 0.
MainReport ==
    /\ mpc = "calc"
    /\ cpc = "done"
    /\ LET said == Table(m.number_years, results)
                     \o SubawardNotes(m.indirect_rate, results.details)
       IN  /\ stdout' = stdout \o said \o << Line("Results saved to ", <<LOG_FILE>>) >>
           /\ logfile' = logfile \o said \o <<BlankLine>>
    /\ logOpen' = FALSE
    /\ mpc' = "finished"
    /\ exitStatus' = "0"
    /\ UNCHANGED <<parExists, m, consumed>>
    /\ UNCHANGED calcVars
    /\ UNCHANGED testVars

\* The process is started in a directory with or without budget.par.
Init ==
    /\ parExists \in BOOLEAN
    /\ mpc = "start"
    /\ m = MainLocals
    /\ stdout = << >>
    /\ logfile = PriorLog
    /\ logOpen = FALSE
    /\ exitStatus = "running"
    /\ consumed = 0
    /\ call = Arguments(MainLocals)
    /\ loc = EnterFrame(Arguments(MainLocals))
    /\ cpc = "idle"
    /\ results = NoResults
    /\ ncall = 0
    /\ prevMtdc = << >>
    /\ subChanged = FALSE

Next ==
    \/ MainStart
    \/ MainReadYears
    \/ MainReadPis
    \/ MainReadFaculty
    \/ MainReadScalar
    \/ MainReadSubaward
    \/ MainReadRate
    \/ MainCheckAndEcho
    \/ MainCall
    \/ CalcYear
    \/ CalcReturn
    \/ MainReport

Spec == Init /\ [][Next]_vars

\* ------------------------------------------------- calculate_budget: claims

\* x * (1 + inflation)^k: a year-1 amount compounded k times.
Compound(x, inflation, k) ==
    (x * Pow(RateDen + inflation, k)) \div Pow(RateDen, k)

\* calculate_budget has returned from a call.
Returned == cpc = "done"

\* The years of the current call, as indices of the returned lists.
YearsOfCall == 1..call.number_years

\* C1 (additivity): in the returned dict yearly[y] = tdc[y] + indirect[y]
\* for every year, where indirect[y] is the year's final indirect cost: the
\* one recorded in the year's detail, which includes the capped charge on
\* the subaward.
C1_Additivity ==
    Returned =>
        \A y \in YearsOfCall :
            /\ results.yearly[y] = results.tdc[y] + results.indirect[y]
            /\ results.indirect[y] = results.details[y].indirect
            /\ results.yearly[y] - results.tdc[y]
                 = RateMul(call.indirect_rate, results.mtdc[y])
                     + RateMul(call.indirect_rate, results.details[y].subaward_mtdc)

\* C1's case: a returned budget of several years with a subaward above the
\* cap in one of them and none in another.
C1_Witness ==
    /\ Returned
    /\ call.number_years >= 2
    /\ \E y \in YearsOfCall : call.subaward[y] > SUBAWARD_INDIRECT_CAP
    /\ \E y \in YearsOfCall : call.subaward[y] = 0

\* C2 (MTDC exclusion): tdc[y] - mtdc[y] is the fees plus the insurance as
\* inflated for year y (the year-1 arguments compounded y times, y counted
\* from 0) plus subaward[y].
C2_MtdcExclusion ==
    Returned =>
        \A y \in YearsOfCall :
            results.tdc[y] - results.mtdc[y]
              = Compound(call.grad_fees, call.inflation, y - 1)
                  + Compound(call.grad_ins, call.inflation, y - 1)
                  + call.subaward[y]

\* C2's case: a later year of a budget with inflation and a subaward there.
C2_Witness ==
    /\ Returned
    /\ call.inflation > 0
    /\ call.number_years >= 3
    /\ call.subaward[3] > 0
    /\ results.tdc[3] - results.mtdc[3] > call.grad_fees + call.grad_ins + call.subaward[3]

\* C3 (indirect cost): indirect[y] = indirect_rate * mtdc[y]
\* + indirect_rate * min(subaward[y], 25000); so with every subaward zero it
\* is indirect_rate * mtdc[y], and a subaward of 50000 adds
\* indirect_rate * 25000.
C3_IndirectFormula ==
    Returned =>
        \A y \in YearsOfCall :
            /\ results.indirect[y]
                 = RateMul(call.indirect_rate, results.mtdc[y])
                     + RateMul(call.indirect_rate, Min(call.subaward[y], SUBAWARD_INDIRECT_CAP))
            /\ (\A z \in YearsOfCall : call.subaward[z] = 0)
                 => results.indirect[y] = RateMul(call.indirect_rate, results.mtdc[y])
            /\ call.subaward[y] = 50000
                 => results.indirect[y] - RateMul(call.indirect_rate, results.mtdc[y])
                      = RateMul(call.indirect_rate, 25000)

\* C3's case: a returned budget with a subaward of 50000 in some year.
C3_Witness ==
    /\ Returned
    /\ \E y \in YearsOfCall :
         /\ call.subaward[y] = 50000
         /\ results.indirect[y] > RateMul(call.indirect_rate, results.mtdc[y])

\* C4 (subaward cap): for a subaward[y] >= 0 the recorded subaward_mtdc is
\* subaward[y] up to the cap and the cap above it, hence between 0 and
\* min(subaward[y], cap); it is a function of subaward[y] alone.
C4_SubawardCap ==
    Returned =>
        \A y \in YearsOfCall :
            call.subaward[y] >= 0 =>
                /\ results.details[y].subaward_mtdc
                     = IF call.subaward[y] <= SUBAWARD_INDIRECT_CAP
                         THEN call.subaward[y]
                         ELSE SUBAWARD_INDIRECT_CAP
                /\ 0 <= results.details[y].subaward_mtdc
                /\ results.details[y].subaward_mtdc
                     <= Min(call.subaward[y], SUBAWARD_INDIRECT_CAP)

\* C4's case: a year below the cap after a year above it.
C4_Witness ==
    /\ Returned
    /\ call.number_years >= 2
    /\ call.subaward[1] > SUBAWARD_INDIRECT_CAP
    /\ call.subaward[2] > 0
    /\ call.subaward[2] < SUBAWARD_INDIRECT_CAP
    /\ results.details[2].subaward_mtdc = call.subaward[2]

\* C5 (inflation): the detail of year k+1 shows each inflatable amount as
\* its year-1 argument times (1 + inflation)^k (fees and insurance through
\* their sum, grad_tuition_health), so year 1 shows the arguments;
\* travel, pub_costs and the postdoc health inside total_postdoc are the
\* arguments in every year, and the detail's subaward is subaward[y].
\* While the loop runs, the rebound parameters hold the amounts of the
\* year it is about to compute.
C5_Inflation ==
    /\ Returned =>
        \A y \in YearsOfCall :
            LET d == results.details[y]
                C(x) == Compound(x, call.inflation, y - 1)
            IN  /\ d.faculty_salary = C(call.faculty_salary)
                /\ d.grad_salary = C(call.grad_salary)
                /\ d.postdoc_salary = C(call.postdoc_salary)
                /\ d.undergrad_salary = C(call.undergrad_salary)
                /\ d.grad_tuition_health = C(call.grad_fees) + C(call.grad_ins)
                /\ d.travel = call.travel
                /\ d.pub_costs = call.pub_costs
                /\ d.total_postdoc - d.postdoc_salary - d.postdoc_fringe = call.postdoc_health
                /\ d.subaward = call.subaward[y]
                /\ y = 1 => /\ d.faculty_salary = call.faculty_salary
                            /\ d.grad_salary = call.grad_salary
                            /\ d.grad_tuition_health = call.grad_fees + call.grad_ins
                /\ call.inflation = 0 => /\ d.faculty_salary = call.faculty_salary
                                         /\ d.grad_salary = call.grad_salary
                                         /\ d.postdoc_salary = call.postdoc_salary
                                         /\ d.undergrad_salary = call.undergrad_salary
    /\ (cpc = "loop" /\ LoopContinues(loc)) =>
        /\ loc.grad_fees = Compound(call.grad_fees, call.inflation, loc.year)
        /\ loc.grad_ins = Compound(call.grad_ins, call.inflation, loc.year)
        /\ loc.travel = call.travel
        /\ loc.pub_costs = call.pub_costs
        /\ loc.postdoc_health = call.postdoc_health
        /\ loc.subaward = call.subaward

\* C5's case: the third year of a budget with inflation and with every
\* salary present.
C5_Witness ==
    /\ Returned
    /\ call.number_years >= 3
    /\ call.inflation > 0
    /\ call.faculty_salary > 0
    /\ call.postdoc_salary > 0
    /\ call.undergrad_salary > 0
    /\ results.details[3].grad_salary > results.details[2].grad_salary
    /\ results.details[2].grad_salary > call.grad_salary

\* C6 (total direct cost): tdc[y] is the sum, each counted once, of the six
\* inflatable amounts as inflated for year y, travel, pub_costs, the year's
\* total_fringe, postdoc_health and subaward[y].
C6_TdcComponents ==
    Returned =>
        \A y \in YearsOfCall :
            LET C(x) == Compound(x, call.inflation, y - 1)
            IN  results.tdc[y]
                  = C(call.faculty_salary) + C(call.grad_salary) + C(call.grad_fees)
                      + C(call.grad_ins) + C(call.postdoc_salary) + C(call.undergrad_salary)
                      + call.travel + call.pub_costs + results.details[y].total_fringe
                      + call.postdoc_health + call.subaward[y]

\* C6's case: every component of the sum is present in a later year.
C6_Witness ==
    /\ Returned
    /\ call.number_years >= 2
    /\ call.inflation > 0
    /\ call.faculty_salary > 0
    /\ call.postdoc_salary > 0
    /\ call.undergrad_salary > 0
    /\ call.postdoc_health > 0
    /\ call.subaward[2] > 0
    /\ results.details[2].total_fringe > 0

\* C7 (fringe): total_fringe of year y is fringe_rate times (a quarter of
\* the graduate salary + the undergraduate salary + the faculty salary)
\* plus fulltime_fringe times the postdoc salary, on the year's salaries.
C7_Fringe ==
    Returned =>
        \A y \in YearsOfCall :
            LET C(x) == Compound(x, call.inflation, y - 1)
            IN  results.details[y].total_fringe
                  = RateMul(call.fringe_rate,
                            C(call.grad_salary) \div 4
                              + C(call.undergrad_salary) + C(call.faculty_salary))
                      + RateMul(call.fulltime_fringe, C(call.postdoc_salary))

\* C7's case: both fringe rates act, on different rates, in a later year.
C7_Witness ==
    /\ Returned
    /\ call.number_years >= 2
    /\ call.inflation > 0
    /\ call.fringe_rate > 0
    /\ call.fulltime_fringe # call.fringe_rate
    /\ call.postdoc_salary > 0
    /\ call.faculty_salary > 0
    /\ call.undergrad_salary > 0
    /\ results.details[2].total_fringe > results.details[1].total_fringe

\* C8 (year count): a call runs the loop body exactly number_years times
\* and returns: while it runs, the bodies run so far are year <=
\* number_years, one detail each, and a further step is enabled; when it
\* has returned, year = number_years and tdc, mtdc, indirect, yearly and
\* details have length number_years, details[i].year = i.
C8_YearCount ==
    /\ cpc = "loop" =>
        /\ loc.year <= call.number_years
        /\ Len(loc.details) = loc.year
        /\ Len(loc.tdc) = call.number_years
        /\ (loc.year < call.number_years) => ENABLED CalcYear
        /\ (loc.year = call.number_years) => ENABLED CalcReturn
    /\ Returned =>
        /\ loc.year = call.number_years
        /\ Len(results.tdc) = call.number_years
        /\ Len(results.mtdc) = call.number_years
        /\ Len(results.indirect) = call.number_years
        /\ Len(results.yearly) = call.number_years
        /\ Len(results.details) = call.number_years
        /\ \A i \in YearsOfCall : results.details[i].year = i

\* C8's case: a call of the most years explored has returned.
C8_Witness ==
    /\ Returned
    /\ call.number_years = MaxYears
    /\ Len(results.details) = MaxYears
    /\ results.details[MaxYears].year = MaxYears

\* C9 (mtdc is independent of the subaward): a second call that differs
\* from the first only in its subaward list returns the same mtdc list.
C9_MtdcIgnoresSubaward ==
    (Returned /\ ncall = 2) => results.mtdc = prevMtdc

\* C9's case: the second call, given another subaward list than the first
\* and one with a subaward in it, has returned.
C9_Witness ==
    /\ Returned
    /\ ncall = 2
    /\ subChanged
    /\ \E y \in YearsOfCall : call.subaward[y] > 0

\* ------------------------------------------------------------ main: claims

\* C10 (missing parameter file): without budget.par main prints a
\* diagnostic that names the file and exits with a non-zero status, and
\* does so as its first step: no input has been read, budget.log is
\* neither open nor changed and calculate_budget has not been called.  A
\* run in which calculate_budget has been called found budget.par and
\* holds the parameters loaded from it.
C10_MissingParFile ==
    /\ ~parExists =>
         /\ mpc \in {"start", "exited"}
         /\ mpc = "start" => (exitStatus = "running" /\ stdout = << >> /\ ENABLED MainStart)
         /\ mpc = "exited" =>
              /\ exitStatus = "1"
              /\ Len(stdout) = 2
              /\ stdout[1].args = <<PAR_FILE>>
         /\ consumed = 0
         /\ \A i \in 1..Len(stdout) : stdout[i].text # "? "
         /\ ~logOpen
         /\ logfile = PriorLog
         /\ cpc = "idle"
    /\ cpc # "idle" =>
         /\ parExists
         /\ DOMAIN m.params = DOMAIN LoadParameters(ParFile)
         /\ "indirect_rate" \in DOMAIN m.params

\* C10's case: the process has exited for want of budget.par.
C10_Witness ==
    /\ ~parExists
    /\ mpc = "exited"
    /\ exitStatus = "1"
    /\ stdout # << >>

\* How many lines of out have the text text.
CountLines(out, text) == Cardinality({i \in 1..Len(out) : out[i].text = text})

\* main is past the subaward loop and has not crashed since.
PastSubawardLoop == mpc \in {"rates", "check", "call", "calc", "finished"}

\* C11 (subaward entry is recoverable): an entry with a token that is not
\* an integer, or with another number of integers than number_years, does
\* not end the run: main prints the error and prompts again, once for
\* every such entry, the run still going and the log file open.  The loop
\* is left only after an empty entry, with number_years zeros, or after an
\* entry of exactly number_years integers, with those; so every call of
\* calculate_budget has len(subaward) = number_years.
C11_SubawardRetry ==
    /\ mpc = "subaward" =>
         /\ exitStatus = "running"
         /\ logOpen
         /\ ENABLED MainReadSubaward
         /\ m.rejected > 0 =>
              /\ m.user_input # << >>
              /\ \/ \E y \in 1..Len(m.user_input) : ~IntOk(m.user_input[y])
                 \/ Len(m.user_input) # m.number_years
              /\ stdout[Len(stdout)].text = "Error: . Try again."
              /\ stdout[Len(stdout) - 1] = SubawardPrompt(m.number_years)
    /\ (mpc = "subaward" \/ PastSubawardLoop) =>
         /\ CountLines(stdout, "Error: . Try again.") = m.rejected
         /\ CountLines(stdout, SubawardPrompt(m.number_years).text)
              = m.rejected + (IF PastSubawardLoop THEN 1 ELSE 0)
    /\ PastSubawardLoop =>
         \/ /\ m.user_input = << >>
            /\ m.subaward = Zeros(m.number_years)
         \/ /\ Len(m.user_input) = m.number_years
            /\ \A y \in 1..m.number_years : IntOk(m.user_input[y])
            /\ m.subaward = [y \in 1..m.number_years |-> m.user_input[y].val]
    /\ cpc # "idle" =>
         /\ Len(call.subaward) = call.number_years
         /\ call.subaward = m.subaward
         /\ Len(loc.subaward) = loc.number_years

\* C11's case: a run that was given two entries the loop rejected, then
\* number_years integers, and whose call of calculate_budget has returned.
C11_Witness ==
    /\ m.rejected >= 2
    /\ cpc = "done"
    /\ m.user_input # << >>
    /\ call.number_years >= 2
    /\ Len(call.subaward) = call.number_years
    /\ call.subaward[1] > 0

\* The four rates, in the order main checks them.
RateNames == <<"indirect_rate", "fringe_rate", "fulltime_fringe", "inflation">>

\* How many lines of out warn about the rate name.
CountWarnings(out, name) ==
    Cardinality({i \in 1..Len(out) :
                    /\ out[i].text = "Warning: is outside [0, 1]. Did you mean ?"
                    /\ out[i].args[1] = name})

\* main is past the range check of the rates.
PastRangeCheck == mpc \in {"call", "calc", "finished"}

\* The claim about the rates, for warnings that appear in out: past the
\* range check, out has one warning for each rate below 0 or above 1,
\* which shows the rate and the rate over 100, and none for a rate in
\* [0, 1]; before it, none at all.  From the check on the run keeps
\* going until it has finished with status 0, and calculate_budget is
\* called with the four rates as main read them.
RangeWarningClaim(out) ==
    /\ \A i \in 1..Len(RateNames) :
         LET name == RateNames[i]
             val == m[name]
         IN  /\ PastRangeCheck =>
                  /\ CountWarnings(out, name) = IF val < 0 \/ val > RateDen THEN 1 ELSE 0
                  /\ \A j \in 1..Len(out) :
                       (out[j].text = Warning(name, val).text /\ out[j].args[1] = name)
                         => out[j].args = <<name, val, [num |-> val, den |-> 100 * RateDen]>>
             /\ ~PastRangeCheck => CountWarnings(out, name) = 0
             /\ cpc # "idle" => (call[name] = val /\ loc[name] = val)
    /\ mpc = "check" => (exitStatus = "running" /\ ENABLED MainCheckAndEcho)
    /\ mpc = "call" => (exitStatus = "running" /\ ENABLED MainCall)
    /\ mpc = "calc" =>
         /\ exitStatus = "running"
         /\ ENABLED CalcYear \/ ENABLED CalcReturn \/ ENABLED MainReport
    /\ mpc = "finished" => exitStatus = "0"

\* C12 as stated (range warning, logged): the warning of an out-of-range
\* rate is in budget.log.
C12_WarningInLog == RangeWarningClaim(logfile)

\* C12 as amended (range warning, printed): a rate outside [0, 1] is not
\* fatal.  Its warning, with the rate and the rate over 100, is printed on
\* the console, once for each rate outside [0, 1] and never for a rate in
\* [0, 1], 0 and 1 included; budget.log never has a warning.  The run goes
\* on to the calculation and exits with status 0, and calculate_budget
\* gets each rate as entered, neither clamped nor divided.
C12_RangeWarning ==
    /\ RangeWarningClaim(stdout)
    /\ \A i \in 1..Len(RateNames) : CountWarnings(logfile, RateNames[i]) = 0

\* C12's case: a run with an indirect rate of 1.25, an inflation of -0.25
\* and a fringe rate of 1.0 has finished.
C12_Witness ==
    /\ mpc = "finished"
    /\ exitStatus = "0"
    /\ call.indirect_rate > RateDen
    /\ call.inflation < 0
    /\ call.fringe_rate = RateDen
    /\ CountWarnings(stdout, "indirect_rate") = 1
    /\ CountWarnings(stdout, "inflation") = 1
    /\ CountWarnings(stdout, "fringe_rate") = 0

\* The texts of the lines the claim counts as rendered: the banner, the
\* subaward echo, the echoed input parameters, the header, the separators
\* and the rows of the table, the subaward notes, and the empty lines
\* among them.
RenderedTexts ==
    {Banner[i].text : i \in 1..Len(Banner)}
      \cup {"Subaward values: ", "Total Subaward: "}
      \cup {InputParameters(MainLocals)[i].text : i \in 1..Len(InputParameters(MainLocals))}
      \cup {BlankLine.text, Header(1).text, Sep(1).text}
      \cup {LineItems[i].label : i \in 1..Len(LineItems)}
      \cup {"Modified Total Direct Costs", "Indirect", "Total Direct", "Total Budget"}
      \cup {"  Note: Year subaward indirect (on first $25k) = "}

\* The rendered lines of out, in order.
Rendered(out) ==
    LET isRendered(line) == line.text \in RenderedTexts
    IN  SelectSeq(out, isRendered)

\* What the run has added to budget.log.
Appended == SubSeq(logfile, Len(PriorLog) + 1, Len(logfile))

\* C13 (dual output): the rendered lines on the console are, line for line
\* and in the same order, the rendered lines the run has added to
\* budget.log, but for the empty line that closes the run's part of the
\* log; each has the same text and the same values (the banner the same
\* timestamp) in both.  The run adds to budget.log after what it held: the
\* lines of earlier runs stay as they were, and a run that has not opened
\* the file adds nothing.
C13_DualOutput ==
    /\ Len(logfile) >= Len(PriorLog)
    /\ SubSeq(logfile, 1, Len(PriorLog)) = PriorLog
    /\ Rendered(Appended)
         = Rendered(stdout) \o (IF mpc = "finished" THEN <<BlankLine>> ELSE << >>)
    /\ mpc # "start" /\ parExists =>
         /\ Len(Appended) >= Len(Banner)
         /\ SubSeq(Appended, 1, Len(Banner)) = Banner
         /\ SubSeq(Rendered(stdout), 1, Len(Banner)) = Banner
    /\ mpc = "finished" =>
         LET report == InputParameters(m)
                         \o Table(m.number_years, results)
                         \o SubawardNotes(m.indirect_rate, results.details)
             printed == {stdout[j] : j \in 1..Len(stdout)}
             written == {Appended[j] : j \in 1..Len(Appended)}
         IN  /\ ~logOpen
             /\ \A i \in 1..Len(report) : report[i] \in printed /\ report[i] \in written

\* C13's case: a run with subaward notes has finished: the table and the
\* notes are on the console and in budget.log after the earlier run's line.
C13_Witness ==
    /\ mpc = "finished"
    /\ \E y \in 1..Len(results.details) : results.details[y].subaward_mtdc > 0
    /\ \E j \in 1..Len(stdout) :
         stdout[j].text = "  Note: Year subaward indirect (on first $25k) = "
    /\ \E j \in 1..Len(Appended) :
         Appended[j].text = "  Note: Year subaward indirect (on first $25k) = "
    /\ logfile[1] = PriorLog[1]
    /\ Len(Rendered(stdout)) > Len(Banner) + Len(InputParameters(m))
    /\ Len(Rendered(stdout)) < Len(stdout)

\* C14 (detail consistency): in the detail of every year, total_fringe is
\* faculty_fringe + grad_fringe + postdoc_fringe + fringe_rate times the
\* year's undergrad_salary (the undergraduate fringe has no item of its
\* own); total_postdoc is postdoc_salary + postdoc_fringe + the
\* postdoc_health argument; and mtdc and indirect are mtdc[y] and
\* indirect[y] of the returned lists.
C14_DetailConsistency ==
    Returned =>
        \A y \in YearsOfCall :
            LET d == results.details[y]
            IN  /\ d.total_fringe
                     = d.faculty_fringe + d.grad_fringe + d.postdoc_fringe
                         + RateMul(call.fringe_rate, d.undergrad_salary)
                /\ d.total_postdoc
                     = d.postdoc_salary + d.postdoc_fringe + call.postdoc_health
                /\ d.mtdc = results.mtdc[y]
                /\ d.indirect = results.indirect[y]

\* C14's case: a later year of a budget with inflation in which every
\* role is paid and taxed, the undergraduate included.
C14_Witness ==
    /\ Returned
    /\ call.number_years >= 2
    /\ call.inflation > 0
    /\ call.fringe_rate > 0
    /\ call.faculty_salary > 0
    /\ call.postdoc_salary > 0
    /\ call.postdoc_health > 0
    /\ RateMul(call.fringe_rate, results.details[2].undergrad_salary) > 0
    /\ results.details[2].total_fringe
         > results.details[2].faculty_fringe + results.details[2].grad_fringe
             + results.details[2].postdoc_fringe
    /\ results.details[2].mtdc > results.details[1].mtdc

=============================================================================
